---- MODULE Spec2Model ----
(***************************************************************************)
(* Model of the /queue HTTP handlers of jimmy (src/handlers/queue.rs).     *)
(*                                                                         *)
(* Every handler is an async function: it checks a connection out of the   *)
(* pool (an await point), calls one Queue Store operation through          *)
(* RedisManager (an await point) and turns the result into a response.     *)
(* create_job and reattempt_job also use the Job Staging Store (the file   *)
(* module, synchronous calls).  The connection `conn` is a local of the    *)
(* handler: it goes back to the pool when the handler returns, panics or   *)
(* is dropped.                                                             *)
(*                                                                         *)
(* RedisManager, file, OcyError and the configuration are not part of the  *)
(* sources at hand; their behaviour is taken from the specification's      *)
(* section 6 (external interfaces) and section 7 (error taxonomy).         *)
(***************************************************************************)
EXTENDS Integers, Sequences, FiniteSets

\* ------------------------------------------------------------------ bounds

\* connections the pool hands out at once
PoolSize == 2
\* jobs the Queue Store accepts in one run (job ids are 1..MaxJobs)
MaxJobs == 2
\* records the Job Staging Store accepts per queue (staging ids are 1..MaxStaged)
MaxStaged == 1
\* milliseconds by which the time a suspended request has slept advances in one step
TickMs == 25

\* request tasks; each specification runs some of them
Procs == {"p1", "p2", "p3"}
QNames == {"q1", "q2"}

\* ------------------------------------------------------------------ values

\* queue::Settings as the PUT body carries them; "bad" fails the store's validation
ValidSettings == {"S1", "S2"}
AllSettings == ValidSettings \cup {"bad"}
NoQueue == "none"

\* job::CreateRequest.input, an Option<serde_json::Value>:
\* kind "absent" is None, "object" carries its map in fields
EmptyMap == [k \in {} |-> 0]
JObject(f) == [kind |-> "object", fields |-> f]
JArray == [kind |-> "array", fields |-> EmptyMap]
JScalar == [kind |-> "scalar", fields |-> EmptyMap]
JAbsent == [kind |-> "absent", fields |-> EmptyMap]
Inputs ==
  { JObject([k \in {"a"} |-> 1]),
    JObject([k \in {"a", "attempted_on"} |-> IF k = "a" THEN 1 ELSE 0]),
    JArray, JScalar, JAbsent }

\* Result<T, OcyError>
Ok(v) == [ok |-> TRUE, val |-> v, err |-> "none"]
Err(e) == [ok |-> FALSE, val |-> 0, err |-> e]

\* what a Queue Store call can be made to fail with, whatever its arguments
Faults == {"none", "BadRequest", "Internal"}

\* a parsed request: the handler's path and json arguments
Request(op, q, input, s, id, ts) ==
  [op |-> op, q |-> q, input |-> input, settings |-> s, job_id |-> id, timestamp |-> ts]
Requests ==
  { Request("index", "q1", JAbsent, "S1", 0, 0) }
  \cup { Request("create_or_update", q, JAbsent, s, 0, 0) : q \in QNames, s \in AllSettings }
  \cup { Request(op, q, JAbsent, "S1", 0, 0) :
           op \in {"delete", "settings", "size", "job_ids", "next_job"}, q \in QNames }
  \cup { Request("create_job", q, i, "S1", 0, 0) : q \in QNames, i \in Inputs }
  \cup { Request("fetch_job", q, JAbsent, "S1", id, 0) : q \in QNames, id \in 1..MaxJobs }
  \cup { Request("reattempt_job", q, JAbsent, "S1", 0, ts) : q \in QNames, ts \in 1..MaxStaged }
NoRequest == Request("none", "q1", JAbsent, "S1", 0, 0)

\* server.next_job_delay, an Option<Duration>
NoDelay == [some |-> FALSE, ms |-> 0]
Delays == { NoDelay, [some |-> TRUE, ms |-> 0], [some |-> TRUE, ms |-> 50] }

\* ------------------------------------------------------------------ state

VARIABLES
  queues,          \* Queue Store: queue name -> settings, or NoQueue
  jobs,            \* Queue Store: job records, the job id is the index
  staged,          \* Job Staging Store: set of [q, ts, input]
  clock,           \* Job Staging Store: last staging id given out, per queue
  next_job_delay,  \* configuration, read-only after startup
  pc,              \* per request task: where the handler is
  req,             \* per request task: the request being (or last) handled
  resp,            \* per request task: the response of the last request
  held,            \* request tasks holding a pooled connection
  calls,           \* per request task: the collaborator calls of this request, in order
  errlog,          \* per request task: whether this request logged at error level
  job_write_res,   \* create_job's local job_write_res.1 (0: not written)
  job_req,         \* the handler's local job_req (its input)
  slept            \* per request task: milliseconds spent in tokio::time::sleep

vars ==
  << queues, jobs, staged, clock, next_job_delay, pc, req, resp, held, calls, errlog,
     job_write_res, job_req, slept >>
storeVars == << queues, jobs, staged, clock >>

\* ------------------------------------------------------------------ responses

Response(kind, status, err, body) ==
  [kind |-> kind, status |-> status, err |-> err, body |-> body]
NoResponse == Response("none", 0, "none", 0)
\* the task panicked: the client gets no response from the handler
Panicked == Response("panic", 0, "none", 0)
\* the client went away and the handler's future was dropped
Cancelled == Response("cancelled", 0, "none", 0)

\* OcyError's ResponseError: the status of each kind
ErrorStatus(e) ==
  CASE e = "NoSuchQueue" -> 404
    [] e = "BadRequest" -> 400
    [] e = "StagingNotFound" -> 404
    [] e = "RedisConnection" -> 503
    [] OTHER -> 500
error_response(e) == Response("error", ErrorStatus(e), e, 0)

Call(fn, err, ret) == [fn |-> fn, err |-> err, ret |-> ret]

Init ==
  /\ queues = [q \in QNames |-> NoQueue]
  /\ jobs = << >>
  /\ staged = {}
  /\ clock = [q \in QNames |-> 0]
  /\ next_job_delay \in Delays
  /\ pc = [p \in Procs |-> "idle"]
  /\ req = [p \in Procs |-> NoRequest]
  /\ resp = [p \in Procs |-> NoResponse]
  /\ held = {}
  /\ calls = [p \in Procs |-> << >>]
  /\ errlog = [p \in Procs |-> FALSE]
  /\ job_write_res = [p \in Procs |-> 0]
  /\ job_req = [p \in Procs |-> JAbsent]
  /\ slept = [p \in Procs |-> 0]


\* ------------------------------------------------------------------ Queue Store
\* RedisManager's operations: the result each returns and the store it leaves.
\* A fault makes the call fail whatever its arguments and changes nothing.

QueueExists(q) == queues[q] # NoQueue
QueuedIds(q) == { i \in 1..Len(jobs) : jobs[i].q = q /\ jobs[i].state = "queued" }
MinOf(S) == CHOOSE i \in S : \A j \in S : i <= j
JobBody(i) == [id |-> i, q |-> jobs[i].q, input |-> jobs[i].input]

RM_queue_names(fault) ==
  IF fault # "none" THEN Err(fault) ELSE Ok({ q \in QNames : QueueExists(q) })

\* Ok(true): the queue was created, Ok(false): its settings were replaced
RM_create_or_update_queue(q, s, fault) ==
  IF fault # "none" THEN Err(fault)
  ELSE IF s \notin ValidSettings THEN Err("BadRequest")
  ELSE Ok(~QueueExists(q))
QueuesAfterCreateOrUpdate(q, s, res) ==
  IF res.ok THEN [queues EXCEPT ![q] = s] ELSE queues

\* Ok(true): the queue was deleted, Ok(false): there was no such queue
RM_delete_queue(q, fault) ==
  IF fault # "none" THEN Err(fault) ELSE Ok(QueueExists(q))
QueuesAfterDelete(q, res) ==
  IF res.ok THEN [queues EXCEPT ![q] = NoQueue] ELSE queues
JobsAfterDelete(q, res) ==
  IF res.ok
  THEN [i \in 1..Len(jobs) |->
          IF jobs[i].q = q THEN [jobs[i] EXCEPT !.state = "deleted"] ELSE jobs[i]]
  ELSE jobs

RM_queue_settings(q, fault) ==
  IF fault # "none" THEN Err(fault)
  ELSE IF ~QueueExists(q) THEN Err("NoSuchQueue")
  ELSE Ok(queues[q])

RM_queue_size(q, fault) ==
  IF fault # "none" THEN Err(fault)
  ELSE IF ~QueueExists(q) THEN Err("NoSuchQueue")
  ELSE Ok(Cardinality(QueuedIds(q)))

RM_queue_job_ids(q, fault) ==
  IF fault # "none" THEN Err(fault)
  ELSE IF ~QueueExists(q) THEN Err("NoSuchQueue")
  ELSE Ok(QueuedIds(q))

\* the store assigns the job id; a store that is full fails the call
RM_create_job(q, input, fault) ==
  IF fault # "none" THEN Err(fault)
  ELSE IF ~QueueExists(q) THEN Err("NoSuchQueue")
  ELSE IF Len(jobs) >= MaxJobs THEN Err("Internal")
  ELSE Ok(Len(jobs) + 1)
JobsAfterCreate(q, input, res) ==
  IF res.ok THEN Append(jobs, [q |-> q, input |-> input, state |-> "queued"]) ELSE jobs

\* Ok(0) is Ok(None); Ok(id) is Ok(Some(job)) and the job leaves the queue
RM_next_queued_job(q, fault) ==
  IF fault # "none" THEN Err(fault)
  ELSE IF ~QueueExists(q) THEN Err("NoSuchQueue")
  ELSE IF QueuedIds(q) = {} THEN Ok(0)
  ELSE Ok(MinOf(QueuedIds(q)))
RM_fetch_queued_job(q, id, fault) ==
  IF fault # "none" THEN Err(fault)
  ELSE IF ~QueueExists(q) THEN Err("NoSuchQueue")
  ELSE IF id \notin QueuedIds(q) THEN Ok(0)
  ELSE Ok(id)
JobsAfterTake(res) ==
  IF res.ok /\ res.val # 0 THEN [jobs EXCEPT ![res.val].state = "running"] ELSE jobs

\* ------------------------------------------------------------------ Job Staging Store
\* the file module: write_job, get_job, delete_job

StagedAt(q, ts) == { r \in staged : r.q = q /\ r.ts = ts }
HasStaged(q, ts) == StagedAt(q, ts) # {}
StagedInput(q, ts) == (CHOOSE r \in StagedAt(q, ts) : TRUE).input

\* Ok(staging id) or an I/O error; a staging area that is full fails the write
file_write_job(q, ioOk) ==
  IF ioOk /\ clock[q] < MaxStaged THEN Ok(clock[q] + 1) ELSE Err("StagingError")
StagedAfterWrite(q, input, res) ==
  IF res.ok THEN staged \cup {[q |-> q, ts |-> res.val, input |-> input]} ELSE staged
ClockAfterWrite(q, res) ==
  IF res.ok THEN [clock EXCEPT ![q] = res.val] ELSE clock

file_get_job(q, ts) ==
  IF HasStaged(q, ts) THEN Ok(StagedInput(q, ts)) ELSE Err("StagingNotFound")

\* deleting fails on an I/O error and when the record is not there
file_delete_job(q, ts, ioOk) ==
  IF ioOk /\ HasStaged(q, ts) THEN Ok(0) ELSE Err("StagingError")
StagedAfterDelete(q, ts, res) ==
  IF res.ok THEN staged \ StagedAt(q, ts) ELSE staged

\* ------------------------------------------------------------------ request tasks

\* the handler returns: the response goes out and conn is dropped
\* faulty variant: the connection stays checked out after the response
Finish_keeps_conn(p, r, logged) ==
  /\ pc' = [pc EXCEPT ![p] = "idle"]
  /\ resp' = [resp EXCEPT ![p] = r]
  /\ errlog' = [errlog EXCEPT ![p] = logged]
  /\ held' = held
Finish(p, r, logged) ==
  /\ pc' = [pc EXCEPT ![p] = "idle"]
  /\ resp' = [resp EXCEPT ![p] = r]
  /\ errlog' = [errlog EXCEPT ![p] = logged]
  /\ held' = held \ {p}

Called(p, c) == calls' = [calls EXCEPT ![p] = Append(@, c)]

\* a request arrives and its handler is entered: path.into_inner(), json.into_inner()
Begin(p, R) ==
  /\ pc[p] = "idle"
  /\ \E r \in R :
       /\ req' = [req EXCEPT ![p] = r]
       /\ job_req' = [job_req EXCEPT ![p] = r.input]
  /\ pc' = [pc EXCEPT ![p] = "acquire"]
  /\ resp' = [resp EXCEPT ![p] = NoResponse]
  /\ calls' = [calls EXCEPT ![p] = << >>]
  /\ errlog' = [errlog EXCEPT ![p] = FALSE]
  /\ job_write_res' = [job_write_res EXCEPT ![p] = 0]
  /\ slept' = [slept EXCEPT ![p] = 0]
  /\ UNCHANGED << storeVars, next_job_delay, held >>

\* where a handler goes once it has its connection
\* faulty variant: create_job commits before it stages
AfterAcquire_commit_first(op) ==
  IF op = "reattempt_job" THEN "read" ELSE "call"
AfterAcquire(op) ==
  CASE op = "create_job" -> "stage"
    [] op = "reattempt_job" -> "read"
    [] OTHER -> "call"

\* data.redis_conn_pool.get().await: a connection, or the pool's error
Acquire(p) ==
  /\ pc[p] = "acquire"
  /\ \/ /\ Cardinality(held) < PoolSize
        /\ held' = held \cup {p}
        /\ pc' = [pc EXCEPT ![p] = AfterAcquire(req[p].op)]
        /\ Called(p, Call("pool_get", "none", 0))
        /\ UNCHANGED << resp, errlog >>
     \/ /\ Called(p, Call("pool_get", "RedisConnection", 0))
        /\ Finish(p, error_response("RedisConnection"), FALSE)
  /\ UNCHANGED << storeVars, next_job_delay, slept, req, job_write_res, job_req >>

\* the client disconnects while the handler is suspended at an await
Cancel(p) ==
  /\ pc[p] \in {"acquire", "call", "sleep"}
  /\ Finish(p, Cancelled, errlog[p])
  /\ UNCHANGED << storeVars, next_job_delay, slept, req, calls, job_write_res, job_req >>


\* ------------------------------------------------------------------ handlers

\* a response the handler builds itself: HttpResponse::Ok(), Created(), ...
Http(status, body) == Response("http", status, "none", body)

\* GET /queue
index_response(res) ==
  IF res.ok THEN Http(200, res.val) ELSE error_response(res.err)
index(p) ==
  /\ pc[p] = "call" /\ req[p].op = "index"
  /\ \E fault \in Faults :
       LET res == RM_queue_names(fault) IN
         /\ Called(p, Call("queue_names", res.err, 0))
         /\ Finish(p, index_response(res), ~res.ok)
  /\ UNCHANGED << storeVars, next_job_delay, slept, req, job_write_res, job_req >>

\* PUT /queue/{queue_name}
\* faulty variant: the two success arms are swapped
create_or_update_response_swapped(res) ==
  IF res.ok
  THEN IF res.val THEN Http(204, 0) ELSE Http(201, 0)
  ELSE error_response(res.err)
create_or_update_response(res) ==
  IF res.ok
  THEN IF res.val THEN Http(201, 0) ELSE Http(204, 0)
  ELSE error_response(res.err)
create_or_update_logs(res) == ~res.ok /\ res.err # "BadRequest"
create_or_update(p) ==
  /\ pc[p] = "call" /\ req[p].op = "create_or_update"
  /\ \E fault \in Faults :
       LET res == RM_create_or_update_queue(req[p].q, req[p].settings, fault) IN
         /\ queues' = QueuesAfterCreateOrUpdate(req[p].q, req[p].settings, res)
         /\ Called(p, Call("create_or_update_queue", res.err, 0))
         /\ Finish(p, create_or_update_response(res), create_or_update_logs(res))
  /\ UNCHANGED << jobs, staged, clock, next_job_delay, slept, req, job_write_res, job_req >>

\* DELETE /queue/{queue_name}
delete_response(res) ==
  IF res.ok
  THEN IF res.val THEN Http(204, 0) ELSE Http(404, 0)
  ELSE error_response(res.err)
delete_logs(res) == ~res.ok /\ res.err # "BadRequest"
delete(p) ==
  /\ pc[p] = "call" /\ req[p].op = "delete"
  /\ \E fault \in Faults :
       LET res == RM_delete_queue(req[p].q, fault) IN
         /\ queues' = QueuesAfterDelete(req[p].q, res)
         /\ jobs' = JobsAfterDelete(req[p].q, res)
         /\ Called(p, Call("delete_queue", res.err, 0))
         /\ Finish(p, delete_response(res), delete_logs(res))
  /\ UNCHANGED << staged, clock, next_job_delay, slept, req, job_write_res, job_req >>

\* GET /queue/{queue_name}, .../size, .../job_ids: the three reads share their arms
\* faulty variant: every failure is answered as an internal error
read_response_generic(res) ==
  IF res.ok THEN Http(200, res.val) ELSE error_response("Internal")
read_response(res) ==
  IF res.ok THEN Http(200, res.val) ELSE error_response(res.err)
read_logs(res) == ~res.ok /\ res.err # "NoSuchQueue"

settings(p) ==
  /\ pc[p] = "call" /\ req[p].op = "settings"
  /\ \E fault \in Faults :
       LET res == RM_queue_settings(req[p].q, fault) IN
         /\ Called(p, Call("queue_settings", res.err, 0))
         /\ Finish(p, read_response(res), read_logs(res))
  /\ UNCHANGED << storeVars, next_job_delay, slept, req, job_write_res, job_req >>

size(p) ==
  /\ pc[p] = "call" /\ req[p].op = "size"
  /\ \E fault \in Faults :
       LET res == RM_queue_size(req[p].q, fault) IN
         /\ Called(p, Call("queue_size", res.err, 0))
         /\ Finish(p, read_response(res), read_logs(res))
  /\ UNCHANGED << storeVars, next_job_delay, slept, req, job_write_res, job_req >>

job_ids(p) ==
  /\ pc[p] = "call" /\ req[p].op = "job_ids"
  /\ \E fault \in Faults :
       LET res == RM_queue_job_ids(req[p].q, fault) IN
         /\ Called(p, Call("queue_job_ids", res.err, 0))
         /\ Finish(p, read_response(res), read_logs(res))
  /\ UNCHANGED << storeVars, next_job_delay, slept, req, job_write_res, job_req >>

\* POST /queue/{queue_name}/job, first half: file::write_job(..).unwrap()
create_job_stage(p) ==
  /\ pc[p] = "stage" /\ req[p].op = "create_job"
  /\ \E ioOk \in BOOLEAN :
       LET res == file_write_job(req[p].q, ioOk) IN
         /\ staged' = StagedAfterWrite(req[p].q, job_req[p], res)
         /\ clock' = ClockAfterWrite(req[p].q, res)
         /\ Called(p, Call("write_job", res.err, res.val))
         /\ IF res.ok
            THEN /\ job_write_res' = [job_write_res EXCEPT ![p] = res.val]
                 /\ pc' = [pc EXCEPT ![p] = "call"]
                 /\ UNCHANGED << resp, errlog, held >>
            ELSE \* unwrap() of an Err panics: the task unwinds, conn is dropped
                 /\ Finish(p, Panicked, FALSE)
                 /\ UNCHANGED job_write_res
  /\ UNCHANGED << queues, jobs, next_job_delay, slept, req, job_req >>

\* second half: RedisManager::create_job and the match on its result
\* faulty variant: the staged record is deleted whatever the commit answered
create_job_deletes_always(res) == TRUE
\* faulty variant: the staged record is never cleaned up
create_job_deletes_never(res) == FALSE
create_job_deletes(res) == res.ok
\* faulty variant: a failed cleanup turns the submission into a failure
create_job_response_needs_delete(res, del) ==
  IF res.ok /\ del.ok THEN Http(201, res.val)
  ELSE error_response(IF res.ok THEN del.err ELSE res.err)
create_job_response(res, del) ==
  IF res.ok THEN Http(201, res.val) ELSE error_response(res.err)
create_job_logs(res) == ~res.ok /\ res.err \notin {"NoSuchQueue", "BadRequest"}
create_job_commit(p) ==
  /\ pc[p] = "call" /\ req[p].op = "create_job"
  /\ \E fault \in Faults :
       LET q == req[p].q
           ts == job_write_res[p]
           res == RM_create_job(q, job_req[p], fault)
       IN \E ioOk \in (IF create_job_deletes(res) THEN BOOLEAN ELSE {TRUE}) :
            LET del == file_delete_job(q, ts, ioOk) IN
              /\ jobs' = JobsAfterCreate(q, job_req[p], res)
              /\ staged' = IF create_job_deletes(res) THEN StagedAfterDelete(q, ts, del)
                           ELSE staged
              /\ calls' = [calls EXCEPT ![p] =
                   @ \o << Call("create_job", res.err, res.val) >>
                     \o (IF create_job_deletes(res)
                         THEN << Call("get_job", file_get_job(q, ts).err, 0),
                                 Call("delete_job", del.err, 0) >>
                         ELSE << >>)]
              /\ Finish(p, create_job_response(res, del), create_job_logs(res))
  /\ UNCHANGED << queues, clock, next_job_delay, slept, req, job_write_res, job_req >>

\* what next_job and fetch_job do with the store's answer
\* faulty variant: a configured delay of zero suspends too
retrieve_sleeps_on_zero(res) ==
  res.ok /\ res.val = 0 /\ next_job_delay.some
\* Ok(None) with Some(delay) if !delay.is_zero()
retrieve_sleeps(res) ==
  res.ok /\ res.val = 0 /\ next_job_delay.some /\ next_job_delay.ms # 0
\* faulty variant: a job that was found is answered without its input
retrieve_response_no_input(res) ==
  IF res.ok /\ res.val # 0 THEN Http(200, [JobBody(res.val) EXCEPT !.input = JAbsent])
  ELSE IF res.ok THEN Http(204, 0)
  ELSE error_response(res.err)
retrieve_response(res) ==
  IF res.ok /\ res.val # 0 THEN Http(200, JobBody(res.val))
  ELSE IF res.ok THEN Http(204, 0)
  ELSE error_response(res.err)
retrieve_logs(res) == ~res.ok
\* faulty variant: a failed store call is issued again
retrieve_retries(p, res) ==
  /\ jobs' = JobsAfterTake(res)
  /\ IF retrieve_sleeps(res)
     THEN /\ pc' = [pc EXCEPT ![p] = "sleep"]
          /\ UNCHANGED << resp, errlog, held >>
     ELSE IF ~res.ok /\ Len(calls[p]) < 3
     THEN UNCHANGED << pc, resp, errlog, held >>
     ELSE Finish(p, retrieve_response(res), retrieve_logs(res))
retrieve(p, res) ==
  /\ jobs' = JobsAfterTake(res)
  /\ IF retrieve_sleeps(res)
     THEN \* tokio::time::sleep(delay.0).await, conn still in scope
          /\ pc' = [pc EXCEPT ![p] = "sleep"]
          /\ UNCHANGED << resp, errlog, held >>
     ELSE Finish(p, retrieve_response(res), retrieve_logs(res))

\* GET /queue/{queue_name}/job
next_job(p) ==
  /\ pc[p] = "call" /\ req[p].op = "next_job"
  /\ \E fault \in Faults :
       LET res == RM_next_queued_job(req[p].q, fault) IN
         /\ Called(p, Call("next_queued_job", res.err, res.val))
         /\ retrieve(p, res)
  /\ UNCHANGED << queues, staged, clock, next_job_delay, slept, req, job_write_res, job_req >>

\* GET /queue/{queue_name}/job/{job_id}
fetch_job(p) ==
  /\ pc[p] = "call" /\ req[p].op = "fetch_job"
  /\ \E fault \in Faults :
       LET res == RM_fetch_queued_job(req[p].q, req[p].job_id, fault) IN
         /\ Called(p, Call("fetch_queued_job", res.err, res.val))
         /\ retrieve(p, res)
  /\ UNCHANGED << queues, staged, clock, next_job_delay, slept, req, job_write_res, job_req >>

\* time passes while the handler is suspended in tokio::time::sleep(delay.0)
sleep_elapses(p) ==
  /\ pc[p] = "sleep" /\ slept[p] < next_job_delay.ms
  /\ slept' = [slept EXCEPT ![p] =
       IF @ + TickMs < next_job_delay.ms THEN @ + TickMs ELSE next_job_delay.ms]
  /\ UNCHANGED << storeVars, next_job_delay, pc, req, resp, held, calls, errlog,
                  job_write_res, job_req >>

\* the sleep is over once the whole delay has passed: HttpResponse::NoContent()
sleep_done(p) ==
  /\ pc[p] = "sleep" /\ slept[p] >= next_job_delay.ms
  /\ Finish(p, Http(204, 0), FALSE)
  /\ UNCHANGED << storeVars, next_job_delay, slept, req, calls, job_write_res, job_req >>

\* faulty variant: an attempted_on the client sent is kept (insert only when absent)
reattempt_augment_keeps_existing(input, timestamp) ==
  IF input.kind = "object"
  THEN JObject([k \in DOMAIN input.fields \cup {"attempted_on"} |->
                  IF k \in DOMAIN input.fields THEN input.fields[k] ELSE timestamp])
  ELSE input
\* input.extend([("attempted_on", timestamp)]) when the input is an object
reattempt_augment(input, timestamp) ==
  IF input.kind = "object"
  THEN JObject([k \in DOMAIN input.fields \cup {"attempted_on"} |->
                  IF k = "attempted_on" THEN timestamp ELSE input.fields[k]])
  ELSE input

\* faulty variant: a missing record is replaced by an empty request and committed
reattempt_job_read_default(p) ==
  /\ pc[p] = "read" /\ req[p].op = "reattempt_job"
  /\ LET res == file_get_job(req[p].q, req[p].timestamp) IN
       /\ Called(p, Call("get_job", res.err, 0))
       /\ job_req' = [job_req EXCEPT ![p] =
            IF res.ok THEN res.val ELSE JAbsent]
       /\ pc' = [pc EXCEPT ![p] = "call"]
  /\ UNCHANGED << storeVars, next_job_delay, slept, req, job_write_res, resp, errlog, held >>

\* faulty variant: the augmented request is written back over the staged record
reattempt_job_read_writes_back(p) ==
  /\ pc[p] = "read" /\ req[p].op = "reattempt_job"
  /\ LET res == file_get_job(req[p].q, req[p].timestamp)
         aug == reattempt_augment(res.val, req[p].timestamp)
     IN
       /\ Called(p, Call("get_job", res.err, 0))
       /\ IF res.ok
          THEN /\ job_req' = [job_req EXCEPT ![p] = aug]
               /\ staged' = (staged \ StagedAt(req[p].q, req[p].timestamp))
                    \cup {[q |-> req[p].q, ts |-> req[p].timestamp, input |-> aug]}
               /\ pc' = [pc EXCEPT ![p] = "call"]
               /\ UNCHANGED << resp, errlog, held >>
          ELSE /\ Finish(p, error_response(res.err), TRUE)
               /\ UNCHANGED << job_req, staged >>
  /\ UNCHANGED << queues, jobs, clock, next_job_delay, slept, req, job_write_res >>

\* POST /queue/{queue_name}/reattempt/{timestamp}, first half: file::get_job
reattempt_job_read(p) ==
  /\ pc[p] = "read" /\ req[p].op = "reattempt_job"
  /\ LET res == file_get_job(req[p].q, req[p].timestamp) IN
       /\ Called(p, Call("get_job", res.err, 0))
       /\ IF res.ok
          THEN /\ job_req' = [job_req EXCEPT ![p] = reattempt_augment(res.val, req[p].timestamp)]
               /\ pc' = [pc EXCEPT ![p] = "call"]
               /\ UNCHANGED << resp, errlog, held >>
          ELSE /\ Finish(p, error_response(res.err), TRUE)
               /\ UNCHANGED job_req
  /\ UNCHANGED << storeVars, next_job_delay, slept, req, job_write_res >>

\* second half: RedisManager::create_job and the match on its result
\* faulty variant: a reattempt leaves the record it committed in place
reattempt_job_deletes_never(res) == FALSE
reattempt_job_deletes(res) == res.ok
reattempt_job_response(res, del) ==
  IF res.ok THEN Http(201, res.val) ELSE error_response(res.err)
reattempt_job_commit(p) ==
  /\ pc[p] = "call" /\ req[p].op = "reattempt_job"
  /\ \E fault \in Faults :
       LET q == req[p].q
           ts == req[p].timestamp
           res == RM_create_job(q, job_req[p], fault)
       IN \E ioOk \in (IF reattempt_job_deletes(res) THEN BOOLEAN ELSE {TRUE}) :
            LET del == file_delete_job(q, ts, ioOk) IN
              /\ jobs' = JobsAfterCreate(q, job_req[p], res)
              /\ staged' = IF reattempt_job_deletes(res) THEN StagedAfterDelete(q, ts, del)
                           ELSE staged
              /\ calls' = [calls EXCEPT ![p] =
                   @ \o << Call("create_job", res.err, res.val) >>
                     \o (IF reattempt_job_deletes(res)
                         THEN << Call("delete_job", del.err, 0) >>
                         ELSE << >>)]
              /\ Finish(p, reattempt_job_response(res, del), ~res.ok)
  /\ UNCHANGED << queues, clock, next_job_delay, slept, req, job_write_res, job_req >>

\* ------------------------------------------------------------------ specifications

\* The submission protocol under concurrency: two request tasks create the queue,
\* submit and reattempt on it, and clients may disconnect.
SubmitProcs == {"p1", "p2"}
SubmitInputs == { JObject([k \in {"a"} |-> 1]), JArray }
SubmitRequests ==
  { r \in Requests :
      \/ r.op = "create_or_update" /\ r.q = "q1" /\ r.settings = "S1"
      \/ r.op = "create_job" /\ r.q = "q1" /\ r.input \in SubmitInputs
      \/ r.op = "reattempt_job" /\ r.q = "q1" }

InitSubmit == Init /\ next_job_delay = NoDelay

Next ==
  \E p \in SubmitProcs :
    \/ Begin(p, SubmitRequests)
    \/ Acquire(p)
    \/ Cancel(p)
    \/ create_or_update(p)
    \/ create_job_stage(p)
    \/ create_job_commit(p)
    \/ reattempt_job_read(p)
    \/ reattempt_job_commit(p)

Spec == InitSubmit /\ [][Next]_vars

\* Every operation, one request at a time, under every delay setting: all of them
\* on queue q1, the reads and reattempt also on q2, which is never created.
SeqProcs == {"p1"}
SeqRequests ==
  { r \in Requests :
      /\ r.q = "q1" \/ r.op \in {"settings", "size", "job_ids", "reattempt_job"}
      /\ r.op = "create_job" => r.input = JObject([k \in {"a"} |-> 1]) }

NextSeq ==
  \E p \in SeqProcs :
    \/ Begin(p, SeqRequests)
    \/ Acquire(p)
    \/ Cancel(p)
    \/ index(p)
    \/ create_or_update(p)
    \/ delete(p)
    \/ settings(p)
    \/ size(p)
    \/ job_ids(p)
    \/ create_job_stage(p)
    \/ create_job_commit(p)
    \/ next_job(p)
    \/ fetch_job(p)
    \/ sleep_elapses(p)
    \/ sleep_done(p)
    \/ reattempt_job_read(p)
    \/ reattempt_job_commit(p)

SpecSeq == Init /\ [][NextSeq]_vars

\* Staging and reattempt of every kind of input, one request at a time: submits to
\* q1, which is created or not, and reattempts on q1 and on q2.
ReattemptRequests ==
  { r \in Requests :
      \/ r.op = "create_or_update" /\ r.q = "q1" /\ r.settings = "S1"
      \/ r.op = "create_job" /\ r.q = "q1"
      \/ r.op = "reattempt_job" }

NextReattempt ==
  \E p \in SeqProcs :
    \/ Begin(p, ReattemptRequests)
    \/ Acquire(p)
    \/ Cancel(p)
    \/ create_or_update(p)
    \/ create_job_stage(p)
    \/ create_job_commit(p)
    \/ reattempt_job_read(p)
    \/ reattempt_job_commit(p)

SpecReattempt == InitSubmit /\ [][NextReattempt]_vars

\* Retrieval next to submission with more request tasks than pooled connections:
\* every task polls, fetches and submits on q1 under a configured delay of 50 ms.
PollProcs == Procs
PollRequests ==
  { r \in Requests :
      /\ r.q = "q1"
      /\ \/ r.op = "create_or_update" /\ r.settings = "S1"
         \/ r.op = "create_job" /\ r.input = JObject([k \in {"a"} |-> 1])
         \/ r.op = "next_job"
         \/ r.op = "fetch_job" /\ r.job_id = 1 }

InitPoll == Init /\ next_job_delay = [some |-> TRUE, ms |-> 50]

NextPoll ==
  \E p \in PollProcs :
    \/ Begin(p, PollRequests)
    \/ Acquire(p)
    \/ Cancel(p)
    \/ create_or_update(p)
    \/ create_job_stage(p)
    \/ create_job_commit(p)
    \/ next_job(p)
    \/ fetch_job(p)
    \/ sleep_elapses(p)
    \/ sleep_done(p)

SpecPoll == InitPoll /\ [][NextPoll]_vars

\* One client that creates queue q1, submits to it and polls it, under every delay
\* setting and with every fault of the collaborators.
ScenarioRequests ==
  { r \in Requests :
      /\ r.q = "q1"
      /\ \/ r.op = "create_or_update" /\ r.settings = "S1"
         \/ r.op = "create_job" /\ r.input \in SubmitInputs
         \/ r.op = "next_job" }

NextScenario ==
  \E p \in SeqProcs :
    \/ Begin(p, ScenarioRequests)
    \/ Acquire(p)
    \/ Cancel(p)
    \/ create_or_update(p)
    \/ create_job_stage(p)
    \/ create_job_commit(p)
    \/ next_job(p)
    \/ sleep_elapses(p)
    \/ sleep_done(p)

SpecScenario == Init /\ [][NextScenario]_vars


\* ------------------------------------------------------------------ properties

\* the calls of task p's current (or last) request
CallsOf(p, fn) == { i \in 1..Len(calls[p]) : calls[p][i].fn = fn }
Succeeded(p, fn) == \E i \in CallsOf(p, fn) : calls[p][i].err = "none"
Failed(p, fn) == \E i \in CallsOf(p, fn) : calls[p][i].err # "none"
\* the staging id a submit or reattempt works on
StagingIdOf(p) ==
  IF req[p].op = "create_job" THEN job_write_res[p] ELSE req[p].timestamp
IsSubmission(p) == req[p].op \in {"create_job", "reattempt_job"}
\* task p's handler returns in this step after its RedisManager::create_job came back
CommitReturns(p) ==
  /\ IsSubmission(p) /\ pc[p] = "call" /\ pc'[p] = "idle"
  /\ Len(calls'[p]) > Len(calls[p])
CommitResult(p) == calls'[p][Len(calls[p]) + 1]

\* C1: a staged record leaves the Job Staging Store only in a step in which a submit
\* or reattempt working on that very record got success back from the Queue Store's
\* create_job and then issued delete_job; commit failures and cancellations keep it.
C1_DeletedOnlyAfterOwnCommit ==
  [][\A r \in staged : r \notin staged' =>
       \E p \in Procs :
         /\ CommitReturns(p)
         /\ req[p].q = r.q /\ StagingIdOf(p) = r.ts
         /\ CommitResult(p).fn = "create_job" /\ CommitResult(p).err = "none"
         /\ calls'[p][Len(calls'[p])].fn = "delete_job"]_vars

\* a submit whose commit failed has ended, a reattempt of its record was cancelled
\* between reading it and committing it, and the record is still staged
C1_Witness ==
  \E p \in Procs, o \in Procs :
    /\ p # o
    /\ pc[p] = "idle" /\ req[p].op = "create_job" /\ Failed(p, "create_job")
    /\ HasStaged(req[p].q, job_write_res[p])
    /\ pc[o] = "idle" /\ req[o].op = "reattempt_job" /\ resp[o] = Cancelled
    /\ req[o].q = req[p].q /\ req[o].timestamp = job_write_res[p]
    /\ Succeeded(o, "get_job")

\* C2: every submit that ends in a failure response has left a staged record of
\* its request behind.
C2_FailedSubmitLeftRecord ==
  [][\A p \in Procs :
       ( /\ req[p].op = "create_job" /\ pc[p] # "idle" /\ pc'[p] = "idle"
         /\ resp'[p].kind = "error" )
       => \E r \in staged' :
            r.q = req[p].q /\ r.ts = job_write_res'[p] /\ r.input = req[p].input]_vars

\* C8: a submit whose write_job failed ends with a staging-error response and has
\* made no create_job call.
C8_StagingFailureAnswered ==
  \A p \in Procs :
    (pc[p] = "idle" /\ req[p].op = "create_job" /\ Failed(p, "write_job"))
    => /\ resp[p].kind = "error" /\ resp[p].err = "StagingError"
       /\ CallsOf(p, "create_job") = {}


\* a staged input as the reattempt of timestamp ts is to hand it to the Queue Store
WithAttemptedOn(input, ts) ==
  IF input.kind = "object"
  THEN [input EXCEPT !.fields =
          [k \in DOMAIN input.fields \cup {"attempted_on"} |->
             IF k = "attempted_on" THEN ts ELSE input.fields[k]]]
  ELSE input
\* a submit's commit comes back failed / a reattempt's commit comes back accepted
SubmitCommitFails(p) ==
  CommitReturns(p) /\ req[p].op = "create_job" /\ CommitResult(p).err # "none"
ReattemptCommitAccepted(p) ==
  /\ CommitReturns(p) /\ req[p].op = "reattempt_job" /\ CommitResult(p).err = "none"
  /\ HasStaged(req[p].q, req[p].timestamp)
\* the record task p reattempts was staged by a submit whose commit has failed
OfFailedSubmit(p) ==
  \E o \in Procs :
    /\ pc[o] = "idle" /\ req[o].op = "create_job" /\ Failed(o, "create_job")
    /\ req[o].q = req[p].q /\ job_write_res[o] = req[p].timestamp

\* C3 as stated: after a submit's failed commit its record is readable, and a
\* reattempt the Queue Store accepts commits the staged payload as it was staged,
\* answers 201 with the new job id and leaves no staged record.
C3_ReattemptCommitsAndDeletes ==
  [][\A p \in Procs :
       /\ SubmitCommitFails(p) => HasStaged(req[p].q, job_write_res[p])'
       /\ (ReattemptCommitAccepted(p) /\ OfFailedSubmit(p)) =>
            /\ jobs' = Append(jobs, [q |-> req[p].q, state |-> "queued",
                                     input |-> StagedInput(req[p].q, req[p].timestamp)])
            /\ resp'[p] = Http(201, Len(jobs'))
            /\ ~HasStaged(req[p].q, req[p].timestamp)']_vars

\* C3 amended: a submit's failed commit leaves the record it finds staged in place;
\* a reattempt the Queue Store accepts commits the staged payload, with attempted_on
\* set to the staging id when the input is an object, answers 201 with the new job
\* id, and issues delete_job, after which the record is gone unless delete_job failed.
C3_ReattemptCommitsAugmented ==
  [][\A p \in Procs :
       /\ SubmitCommitFails(p) => staged' = staged
       /\ ReattemptCommitAccepted(p) =>
            /\ jobs' = Append(jobs, [q |-> req[p].q, state |-> "queued",
                 input |-> WithAttemptedOn(StagedInput(req[p].q, req[p].timestamp),
                                           req[p].timestamp)])
            /\ resp'[p] = Http(201, Len(jobs'))
            /\ calls'[p][Len(calls'[p])].fn = "delete_job"
            /\ \/ ~HasStaged(req[p].q, req[p].timestamp)'
               \/ calls'[p][Len(calls'[p])].err # "none"]_vars

\* a submit's commit failed, and a reattempt of its record was accepted, answered
\* 201 and removed the record
C3_Witness ==
  \E p \in Procs, o \in Procs :
    /\ pc[p] = "idle" /\ req[p].op = "create_job" /\ Failed(p, "create_job")
    /\ pc[o] = "idle" /\ req[o].op = "reattempt_job"
    /\ req[o].q = req[p].q /\ req[o].timestamp = job_write_res[p]
    /\ resp[o].kind = "http" /\ resp[o].status = 201
    /\ Succeeded(o, "delete_job")
    /\ ~HasStaged(req[o].q, req[o].timestamp)

\* a submit that answered success and whose cleanup did not fail
SubmitSucceeded(p) ==
  /\ pc[p] = "idle" /\ req[p].op = "create_job"
  /\ resp[p].kind = "http" /\ resp[p].status = 201
  /\ ~Failed(p, "delete_job")
\* task r's reattempt reads the staging store in this step
ReattemptReads(r) ==
  req[r].op = "reattempt_job" /\ pc[r] = "read" /\ pc'[r] # "read"

\* C4: once a submit has answered success without a failed cleanup, its record is
\* not staged any more, and a reattempt that then reads that staging id ends with
\* the not-found error, without a create_job call and without a new job.
C4_SucceededSubmitLeavesNoRecord ==
  [][/\ \A p \in Procs :
          SubmitSucceeded(p)' => ~HasStaged(req[p].q, job_write_res[p])'
     /\ \A p \in Procs, r \in Procs :
          ( /\ SubmitSucceeded(p) /\ ReattemptReads(r)
            /\ req[r].q = req[p].q /\ req[r].timestamp = job_write_res[p] )
          => /\ pc'[r] = "idle"
             /\ resp'[r] = error_response("StagingNotFound")
             /\ \A i \in 1..Len(calls'[r]) : calls'[r][i].fn # "create_job"
             /\ jobs' = jobs]_vars

\* a submit succeeded and cleaned up, and a reattempt of its staging id was refused
C4_Witness ==
  \E p \in Procs, r \in Procs :
    /\ SubmitSucceeded(p) /\ Succeeded(p, "delete_job")
    /\ pc[r] = "idle" /\ req[r].op = "reattempt_job"
    /\ req[r].q = req[p].q /\ req[r].timestamp = job_write_res[p]
    /\ Failed(r, "get_job") /\ resp[r].err = "StagingNotFound"
    /\ Len(jobs) = 1

\* C5: whenever the Queue Store's create_job gave a submit or reattempt a job id,
\* the request has answered 201 with that id, whatever delete_job returned.
C5_CommitDecidesOutcome ==
  \A p \in Procs : \A i \in CallsOf(p, "create_job") :
    calls[p][i].err = "none"
    => pc[p] = "idle" /\ resp[p] = Http(201, calls[p][i].ret)

\* a submission was committed, its cleanup failed, and it answered 201
C5_Witness ==
  \E p \in Procs :
    /\ req[p].op = "create_job"
    /\ Succeeded(p, "create_job") /\ Failed(p, "delete_job")
    /\ resp[p].kind = "http" /\ resp[p].status = 201
    /\ HasStaged(req[p].q, job_write_res[p])

\* C7: a reattempt that finds no staged record for its queue and staging id ends
\* there with an error response, has made no create_job call, and leaves the Queue
\* Store and the Job Staging Store as they were.
C7_NotFoundReattemptChangesNothing ==
  [][\A r \in Procs :
       (ReattemptReads(r) /\ ~HasStaged(req[r].q, req[r].timestamp))
       => /\ pc'[r] = "idle"
          /\ resp'[r].kind = "error"
          /\ \A i \in 1..Len(calls'[r]) : calls'[r][i].fn # "create_job"
          /\ UNCHANGED storeVars]_vars

\* a reattempt of a staging id nothing is staged under has been refused
C7_Witness ==
  \E r \in Procs :
    /\ pc[r] = "idle" /\ req[r].op = "reattempt_job"
    /\ Failed(r, "get_job") /\ resp[r].kind = "error"
    /\ CallsOf(r, "create_job") = {}
    /\ clock[req[r].q] < req[r].timestamp


\* C6: the input a reattempt of staging id T is about to pass to create_job is, for
\* a staged object, that object with attempted_on = T added or overwritten and its
\* other fields as staged, and for a staged array, scalar or absent input the staged
\* input itself; an accepted reattempt's job holds exactly the input passed.
C6_ReattemptPayload ==
  \A p \in Procs :
    /\ ( /\ req[p].op = "reattempt_job" /\ pc[p] = "call"
         /\ HasStaged(req[p].q, req[p].timestamp) )
       => LET s == StagedInput(req[p].q, req[p].timestamp)
              c == job_req[p]
          IN IF s.kind = "object"
             THEN /\ c.kind = "object"
                  /\ DOMAIN c.fields = DOMAIN s.fields \cup {"attempted_on"}
                  /\ c.fields["attempted_on"] = req[p].timestamp
                  /\ \A k \in DOMAIN s.fields \ {"attempted_on"} :
                       c.fields[k] = s.fields[k]
             ELSE c = s
    /\ \A i \in CallsOf(p, "create_job") :
         (req[p].op = "reattempt_job" /\ calls[p][i].err = "none")
         => jobs[calls[p][i].ret].input = job_req[p]

\* a reattempt is about to commit a staged object whose own attempted_on it overwrote
C6_Witness ==
  \E p \in Procs :
    /\ req[p].op = "reattempt_job" /\ pc[p] = "call"
    /\ HasStaged(req[p].q, req[p].timestamp)
    /\ StagedInput(req[p].q, req[p].timestamp).kind = "object"
    /\ "attempted_on" \in DOMAIN StagedInput(req[p].q, req[p].timestamp).fields
    /\ StagedInput(req[p].q, req[p].timestamp).fields["attempted_on"] # req[p].timestamp
    /\ job_req[p].fields["attempted_on"] = req[p].timestamp

\* task p's handler returns in this step with the answer of its Queue Store call
StoreCallReturns(p, op) ==
  /\ req[p].op = op /\ pc[p] = "call" /\ pc'[p] = "idle"
  /\ Len(calls'[p]) > Len(calls[p])
StoreCallSucceeds(p, op) ==
  StoreCallReturns(p, op) /\ calls'[p][Len(calls'[p])].err = "none"

\* C9: a create_or_update the store carried out answers 201 exactly when the queue
\* did not exist before the call and 204 exactly when it did, and leaves the
\* request's settings as the queue's; the queue's settings change in no other way
\* than by such a call or a delete, and settings answers with the current ones.
C9_CreatedXorUpdated ==
  [][/\ \A p \in Procs :
          /\ StoreCallSucceeds(p, "create_or_update") =>
               /\ resp'[p].kind = "http" /\ resp'[p].status \in {201, 204}
               /\ resp'[p].status = 201 <=> ~QueueExists(req[p].q)
               /\ resp'[p].status = 204 <=> QueueExists(req[p].q)
               /\ queues'[req[p].q] = req[p].settings
          /\ StoreCallSucceeds(p, "settings") =>
               resp'[p] = Http(200, queues[req[p].q])
     /\ \A q \in QNames :
          queues'[q] # queues[q] =>
            \E p \in Procs :
              /\ req[p].q = q
              /\ \/ StoreCallSucceeds(p, "create_or_update")
                 \/ StoreCallSucceeds(p, "delete") /\ queues'[q] = NoQueue]_vars

\* a second create_or_update on an existing queue answered 204 and its settings hold
C9_Witness ==
  \E p \in Procs :
    /\ pc[p] = "idle" /\ req[p].op = "create_or_update"
    /\ req[p].settings = "S2"
    /\ resp[p].kind = "http" /\ resp[p].status = 204
    /\ queues[req[p].q] = "S2"

\* the calls that go to the connection pool or the Queue Store
StoreCalls ==
  { "pool_get", "queue_names", "create_or_update_queue", "delete_queue",
    "queue_settings", "queue_size", "queue_job_ids", "create_job",
    "next_queued_job", "fetch_queued_job" }

\* C10: when the connection pool or a Queue Store call of a request failed with
\* some error kind, the request has ended and its response carries that kind (with
\* the kind's status); so a NoSuchQueue of the store is answered as NoSuchQueue.
C10_ErrorKindPreserved ==
  \A p \in Procs : \A i \in 1..Len(calls[p]) :
    (calls[p][i].fn \in StoreCalls /\ calls[p][i].err # "none")
    => /\ pc[p] = "idle"
       /\ resp[p].kind = "error"
       /\ resp[p].err = calls[p][i].err
       /\ resp[p].status = ErrorStatus(calls[p][i].err)

\* size on a queue that does not exist was answered NoSuchQueue
C10_Witness ==
  \E p \in Procs :
    /\ pc[p] = "idle" /\ req[p].op = "size" /\ ~QueueExists(req[p].q)
    /\ Failed(p, "queue_size")
    /\ resp[p].kind = "error" /\ resp[p].err = "NoSuchQueue" /\ resp[p].status = 404

\* ------------------------------------------------------------------ retrieval

IsRetrieval(p) == req[p].op \in {"next_job", "fetch_job"}
DelayApplies == next_job_delay.some /\ next_job_delay.ms # 0
\* task p's Queue Store retrieval call comes back in this step
RetrievalReturns(p) ==
  IsRetrieval(p) /\ pc[p] = "call" /\ Len(calls'[p]) > Len(calls[p])
RetrievalResult(p) == calls'[p][Len(calls'[p])]

\* what a retrieval does from the store's answer on: found (200 with the job) when
\* the store returns a job, errored when it returns an error, suspended when it
\* returns no job and the configured delay is non-zero, with the empty response
\* sent only when the whole delay has passed, empty at once when the delay is zero
\* or absent; nothing else suspends, and a response once sent stays
RetrievalTerminals(p) ==
  /\ (pc'[p] = "call" /\ pc[p] # "call") => pc[p] = "acquire"
  /\ RetrievalReturns(p) =>
       LET c == RetrievalResult(p) IN
         /\ c.fn \in {"next_queued_job", "fetch_queued_job"}
         /\ c.err # "none" =>
              pc'[p] = "idle" /\ resp'[p] = error_response(c.err)
         /\ (c.err = "none" /\ c.ret # 0) =>
              pc'[p] = "idle" /\ resp'[p] = Http(200, JobBody(c.ret))
         /\ (c.err = "none" /\ c.ret = 0 /\ DelayApplies) =>
              pc'[p] = "sleep" /\ resp'[p] = NoResponse /\ slept'[p] = 0
         /\ (c.err = "none" /\ c.ret = 0 /\ ~DelayApplies) =>
              pc'[p] = "idle" /\ resp'[p] = Http(204, 0)
  /\ (pc'[p] = "sleep" /\ pc[p] # "sleep") =>
       /\ RetrievalReturns(p) /\ DelayApplies
       /\ RetrievalResult(p).err = "none" /\ RetrievalResult(p).ret = 0
  /\ (pc[p] = "sleep" /\ pc'[p] = "sleep") =>
       resp'[p] = NoResponse /\ slept'[p] > slept[p]
  /\ (pc[p] = "sleep" /\ pc'[p] # "sleep") =>
       /\ pc'[p] = "idle"
       /\ \/ resp'[p] = Cancelled
          \/ resp'[p] = Http(204, 0) /\ slept[p] = next_job_delay.ms
  /\ (pc[p] = "idle" /\ pc'[p] = "idle") => resp'[p] = resp[p]
\* task p's request leaves the connection checkout without the client having gone
LeavesCheckout(p) ==
  pc[p] = "acquire" /\ pc'[p] # "acquire" /\ resp'[p] # Cancelled

\* C11 as stated: every poll_next or fetch call goes from its start to the Queue
\* Store query and from there to exactly one of found, errored, empty after the
\* full delay and empty at once.
C11_EveryCallQueriesStore ==
  [][\A p \in Procs : IsRetrieval(p) =>
       /\ LeavesCheckout(p) => pc'[p] = "call"
       /\ RetrievalTerminals(p)]_vars

\* C11 amended: a poll_next or fetch call whose connection checkout fails ends
\* there with the connection error and without a Queue Store query; every other
\* call goes on to the query and from there to exactly one of found, errored,
\* empty after the full delay (no response before the whole delay has passed) and
\* empty at once (no suspension); only the empty path under a non-zero delay
\* suspends.
C11_RetrievalStateMachine ==
  [][\A p \in Procs : IsRetrieval(p) =>
       /\ LeavesCheckout(p) =>
            \/ pc'[p] = "call" /\ Succeeded(p, "pool_get")'
            \/ /\ pc'[p] = "idle" /\ Failed(p, "pool_get")'
               /\ resp'[p] = error_response("RedisConnection")
               /\ Len(calls'[p]) = 1
       /\ RetrievalTerminals(p)]_vars

\* a poll on an empty queue answered empty after it slept the configured 50 ms
C11_Witness ==
  \E p \in Procs :
    /\ req[p].op = "next_job" /\ pc[p] = "idle"
    /\ next_job_delay.some /\ next_job_delay.ms = 50
    /\ Succeeded(p, "next_queued_job") /\ calls[p][Len(calls[p])].ret = 0
    /\ resp[p] = Http(204, 0) /\ slept[p] = 50

\* C12: a poll_next or fetch request suspended in the empty-retrieval delay holds
\* no connection of the pool.
C12_SleepHoldsNoConnection ==
  \A p \in Procs : pc[p] = "sleep" => p \notin held

\* the request tasks that hold a connection while suspended in the delay
Sleepers == { p \in held : pc[p] = "sleep" }

\* C13: requests suspended in the empty-retrieval delay never keep a request that
\* waits for a connection from getting one: whenever a request waits at the pool
\* and fewer than PoolSize connections are held by requests that are not
\* suspended in the delay, a connection is free.
C13_SleepersBlockNoOne ==
  \A p \in Procs :
    (pc[p] = "acquire" /\ Cardinality(held \ Sleepers) < PoolSize)
    => Cardinality(held) < PoolSize

\* task p's submit comes back from the Queue Store with a job id in this step
SubmitCommitted(p) ==
  CommitReturns(p) /\ req[p].op = "create_job" /\ CommitResult(p).err = "none"
\* the scenario but for the staged record: a create_or_update that creates a queue
\* leaves it without queued jobs; a submit of payload P that returns job id j adds
\* j with input P to the queue's queued jobs; a poll_next the store answers on a
\* queue whose only queued job is j returns job j with its input and empties the
\* queue, and on a queue without queued jobs returns empty; no step changes the
\* queue or the input of a job
CreateSubmitPoll(p) ==
  LET q == req[p].q IN
    /\ (StoreCallSucceeds(p, "create_or_update") /\ resp'[p].status = 201)
         => QueueExists(q)' /\ QueuedIds(q)' = {}
    /\ SubmitCommitted(p) =>
         LET j == CommitResult(p).ret IN
           /\ resp'[p] = Http(201, j)
           /\ j \notin QueuedIds(q) /\ QueuedIds(q)' = QueuedIds(q) \cup {j}
           /\ jobs'[j].input = req[p].input
    /\ (RetrievalReturns(p) /\ req[p].op = "next_job"
          /\ RetrievalResult(p).err = "none") =>
         /\ \A j \in 1..Len(jobs) :
              QueuedIds(q) = {j} =>
                /\ resp'[p] = Http(200, [id |-> j, q |-> q, input |-> jobs[j].input])
                /\ QueuedIds(q)' = {}
         /\ QueuedIds(q) = {} =>
              /\ pc'[p] = "sleep" \/ resp'[p] = Http(204, 0)
              /\ jobs' = jobs
    /\ \A i \in 1..Len(jobs) :
         /\ Len(jobs') >= Len(jobs)
         /\ jobs'[i].q = jobs[i].q /\ jobs'[i].input = jobs[i].input

\* C14 as stated: create, submit returning j, poll returning job j with input P,
\* poll returning empty, and once the submit has returned j its staged record
\* does not exist.
C14_SubmitThenPollNoRecord ==
  [][\A p \in Procs :
       /\ CreateSubmitPoll(p)
       /\ SubmitCommitted(p) => ~HasStaged(req[p].q, job_write_res[p])']_vars

\* C14 amended: create, submit returning j, poll returning job j with input P,
\* poll returning empty; the submit that returned j has issued delete_job for its
\* staged record, and the record is gone unless that delete_job failed, in which
\* case it is still staged as written.
C14_SubmitThenPoll ==
  [][\A p \in Procs :
       /\ CreateSubmitPoll(p)
       /\ SubmitCommitted(p) =>
            LET del == calls'[p][Len(calls'[p])] IN
              /\ del.fn = "delete_job"
              /\ del.err = "none" => ~HasStaged(req[p].q, job_write_res[p])'
              /\ del.err # "none" => staged' = staged]_vars

\* the whole scenario has run: the queue exists, the one submit committed job 1
\* with its payload and removed its staged record, a poll took job 1 (nothing but
\* a poll takes a job here), and the client's last poll was answered empty
C14_Witness ==
  \E p \in Procs :
    /\ pc[p] = "idle" /\ req[p].op = "next_job"
    /\ Succeeded(p, "next_queued_job") /\ calls[p][Len(calls[p])].ret = 0
    /\ resp[p] = Http(204, 0)
    /\ QueueExists(req[p].q)
    /\ Len(jobs) = 1 /\ jobs[1].q = req[p].q /\ jobs[1].state = "running"
    /\ jobs[1].input = JObject([k \in {"a"} |-> 1])
    /\ clock[req[p].q] = 1 /\ ~HasStaged(req[p].q, 1)

\* C15: within one submit the Queue Store's create_job is called only after that
\* request's write_job has returned its staging id (and is not under way before
\* that), and within one submit or reattempt delete_job is called only after that
\* request's create_job has returned.
C15_StageCommitDeleteOrder ==
  \A p \in Procs :
    /\ req[p].op = "create_job" =>
         /\ pc[p] = "call" =>
              Succeeded(p, "write_job") /\ job_write_res[p] \in 1..clock[req[p].q]
         /\ \A c \in CallsOf(p, "create_job") :
              \E w \in CallsOf(p, "write_job") :
                w < c /\ calls[p][w].err = "none" /\ calls[p][w].ret = job_write_res[p]
    /\ IsSubmission(p) =>
         \A d \in CallsOf(p, "delete_job") :
           \E c \in CallsOf(p, "create_job") : c < d

\* a submit staged, committed and cleaned up, in that order, while a reattempt of
\* another task was committed and cleaned up
C15_Witness ==
  \E p \in Procs, o \in Procs :
    /\ pc[p] = "idle" /\ req[p].op = "create_job"
    /\ Succeeded(p, "write_job") /\ Succeeded(p, "create_job")
    /\ CallsOf(p, "delete_job") # {}
    /\ pc[o] = "idle" /\ req[o].op = "reattempt_job"
    /\ Succeeded(o, "create_job") /\ CallsOf(o, "delete_job") # {}

\* the retrieval calls task p's request has made on the Queue Store
RetrievalCalls(p) == CallsOf(p, "next_queued_job") \cup CallsOf(p, "fetch_queued_job")
\* task p's request has been answered by its handler
Answered(p) == pc[p] = "idle" /\ resp[p].kind \in {"http", "error"}

\* C16 as stated: a submit or reattempt has made at most one create_job call, and
\* a poll_next or fetch that has been answered has made exactly one retrieval call.
C16_ExactlyOneStoreCall ==
  \A p \in Procs :
    /\ Cardinality(CallsOf(p, "create_job")) <= 1
    /\ (IsRetrieval(p) /\ Answered(p)) => Cardinality(RetrievalCalls(p)) = 1

\* C16 amended: no request repeats a Queue Store call: a submit or reattempt has
\* made at most one create_job call, a poll_next or fetch at most one retrieval
\* call; a poll_next or fetch that got its connection and has been answered has
\* made exactly one, whatever the call returned, and one whose connection checkout
\* failed has made none.
C16_NoInternalRetry ==
  \A p \in Procs :
    /\ Cardinality(CallsOf(p, "create_job")) <= 1
    /\ Cardinality(RetrievalCalls(p)) <= 1
    /\ (IsRetrieval(p) /\ Answered(p)) =>
         /\ Succeeded(p, "pool_get") => Cardinality(RetrievalCalls(p)) = 1
         /\ Failed(p, "pool_get") =>
              RetrievalCalls(p) = {} /\ resp[p] = error_response("RedisConnection")

\* a poll whose one store call failed has answered the error
C16_Witness ==
  \E p \in Procs :
    /\ pc[p] = "idle" /\ req[p].op = "next_job"
    /\ Failed(p, "next_queued_job") /\ resp[p].kind = "error"
    /\ Cardinality(RetrievalCalls(p)) = 1

\* C17: a request to which a collaborator answered NoSuchQueue, a delete answered
\* not found, and a retrieval answered empty have logged nothing at error level.
C17_AbsenceNotLogged ==
  \A p \in Procs :
    /\ (\E i \in 1..Len(calls[p]) : calls[p][i].err = "NoSuchQueue") => ~errlog[p]
    /\ (req[p].op = "delete" /\ resp[p] = Http(404, 0)) => ~errlog[p]
    /\ (IsRetrieval(p) /\ resp[p] = Http(204, 0)) => ~errlog[p]

\* requests p and o work on the same staged record
SameRecord(p, o) ==
  /\ IsSubmission(p) /\ IsSubmission(o)
  /\ req[p].q = req[o].q /\ StagingIdOf(p) = StagingIdOf(o) /\ StagingIdOf(p) # 0

\* C18: no staged record is committed twice: of the submit that wrote a record and
\* the reattempts on it, no two requests have both had the Queue Store's create_job
\* succeed.
C18_AtMostOneCommitPerRecord ==
  \A p \in Procs, o \in Procs :
    (p # o /\ SameRecord(p, o))
    => ~(Succeeded(p, "create_job") /\ Succeeded(o, "create_job"))

\* task p's reattempt takes a step
ReattemptSteps(p) ==
  req[p].op = "reattempt_job" /\ pc[p] \in {"read", "call"} /\ pc'[p] # pc[p]
\* what is staged under a staging id that stays staged is what was staged
StagedPayloadsKept ==
  \A r \in staged : HasStaged(r.q, r.ts)' => r \in staged'

\* C19: a reattempt never writes to the Job Staging Store: no step of it adds a
\* record or changes a payload, a reattempt whose commit fails leaves the store as
\* it was, and no step of any request changes the payload staged under a staging
\* id; so what a reattempt the Queue Store accepts commits is the payload submit
\* staged, with attempted_on set when it is an object, however many reattempts of
\* the record failed before.
C19_ReattemptNeverWritesStaged ==
  [][/\ StagedPayloadsKept
     /\ \A p \in Procs :
          /\ ReattemptSteps(p) => staged' \subseteq staged
          /\ (ReattemptSteps(p) /\ pc[p] = "read") => staged' = staged
          /\ (CommitReturns(p) /\ req[p].op = "reattempt_job"
                /\ CommitResult(p).err # "none") => staged' = staged
          /\ (CommitReturns(p) /\ req[p].op = "reattempt_job"
                /\ CommitResult(p).err = "none" /\ HasStaged(req[p].q, req[p].timestamp))
             => jobs'[CommitResult(p).ret].input =
                  WithAttemptedOn(StagedInput(req[p].q, req[p].timestamp),
                                  req[p].timestamp)]_vars

\* a reattempt of a staged object failed at the Queue Store and the record still
\* holds the object as it was submitted, without attempted_on
C19_Witness ==
  \E p \in Procs :
    /\ pc[p] = "idle" /\ req[p].op = "reattempt_job"
    /\ Failed(p, "create_job")
    /\ job_req[p].kind = "object" /\ "attempted_on" \in DOMAIN job_req[p].fields
    /\ HasStaged(req[p].q, req[p].timestamp)
    /\ StagedInput(req[p].q, req[p].timestamp) = JObject([k \in {"a"} |-> 1])

\* C20: a request holds a connection only between its checkout and its end: a
\* request that has responded, panicked or been dropped holds none, one that waits
\* at the pool holds none yet, never more than PoolSize are held, and when no
\* request is in flight no connection is checked out.
C20_NoConnectionLeak ==
  /\ \A p \in Procs : pc[p] \in {"idle", "acquire"} => p \notin held
  /\ Cardinality(held) <= PoolSize
  /\ (\A p \in Procs : pc[p] = "idle") => held = {}

\* a retrieval that had its connection and slept through the delay has answered
\* empty, and nothing is checked out
C20_Witness ==
  \E p \in Procs :
    /\ pc[p] = "idle" /\ IsRetrieval(p) /\ DelayApplies
    /\ Succeeded(p, "pool_get") /\ resp[p] = Http(204, 0)
    /\ held = {}

====
